---- MODULE Spec2Model ----
(***************************************************************************)
(* Model of the weight-history screen (loadWeightData, its effect, the     *)
(* time-range buttons, calculateStats) and of the server start-up          *)
(* sequence (initServer) of calories_training_tracker.                     *)
(*                                                                         *)
(* Instants are JavaScript time values: milliseconds since the epoch, UTC. *)
(* A calendar date ('YYYY-MM-DD') is modelled by its day number, the       *)
(* DD.MM. chart label by the local day number (months are not modelled).   *)
(* Weights are integers; null and undefined are the one value Nil.         *)
(***************************************************************************)
EXTENDS Integers, Sequences, FiniteSets

VARIABLES
    timeRange,      \* useState<number>(14): the selected range in days
    defaultWeight,  \* useState<number | null>(null)
    weightData,     \* useState<WeightDataPoint[]>([]): the displayed series
    isLoading,      \* useState(true)
    loads,          \* the loadWeightData invocations that are awaiting a fetch
    clock,          \* the device clock at the first new Date() of a load
    dailyLogs,      \* the daily-log storage behind getDailyLogs
    profileWeight,  \* the weight of the profile behind fetchUserProfile
    errors,         \* the console.error calls of loadWeightData's catch block
    shown,          \* the invocation that wrote weightData last (history)
    serverPc,       \* initServer's position
    connResult,     \* what testConnection resolves to (or that it throws)
    initResult,     \* what initializeDatabase resolves to (or that it throws)
    console,        \* the server's console output, in order
    exitCode,       \* the code given to process.exit, Nil while running
    calls           \* how often testConnection / initializeDatabase were invoked

vars == <<timeRange, defaultWeight, weightData, isLoading, loads, clock,
          dailyLogs, profileWeight, errors, shown,
          serverPc, connResult, initResult, console, exitCode, calls>>

screenVars == <<timeRange, defaultWeight, weightData, isLoading, loads, clock,
                dailyLogs, profileWeight, errors, shown>>

serverVars == <<serverPc, connResult, initResult, console, exitCode, calls>>

----------------------------------------------------------------------------
(* Bounds *)

\* The shortest selectable range, in days; the three buttons are MinRange,
\* MinRange + 1 and MinRange + 2 (14, 30 and 90 days in the source).
MinRange == 1
\* Invocations of loadWeightData the user's presses may leave outstanding.
MaxLoads == 2
\* Fetches that may fail.
MaxErrors == 1

----------------------------------------------------------------------------
(* Values *)

\* null / undefined
Nil == -1
\* no log entry for a date
NoLog == -2

\* weights a log may hold (0 is a number, so an actual weight)
LogWeights == {0, 70}
LogValues == {NoLog, Nil} \cup LogWeights
\* userProfile?.weight: absent, 0 or a weight
ProfileWeights == {Nil, 0, 75}

\* the milliseconds between the new Date() of `now` and that of `startDate`:
\* none, or the clock ticks in between
Elapsed == {0, 1}

timeRangeOptions == {MinRange, MinRange + 1, MinRange + 2}
MaxRange == MinRange + 2

\* no invocation has written weightData yet
NoLoad == [pc |-> "none"]

----------------------------------------------------------------------------
(* Date: local time, UTC and day arithmetic *)

MsPerHour == 3600 * 1000
MsPerDay == 24 * MsPerHour

\* The device's time zone: UTC+1, and UTC+2 from DstStart on (the clocks go from
\* 02:00 to 03:00 local time on day 3).
StdOffset == MsPerHour
DstStart == 3 * MsPerDay + MsPerHour
Offset(t) == IF t < DstStart THEN StdOffset ELSE StdOffset + MsPerHour

\* LocalTime(t)
LocalTime(t) == t + Offset(t)
\* getDate(): the local calendar day
getDate(t) == LocalTime(t) \div MsPerDay
\* TimeWithinDay(LocalTime(t))
TimeWithinDay(t) == LocalTime(t) % MsPerDay

\* UTC(local): the instant a local time stands for; a local time the change of
\* offset skips is read with the offset before the change.
UTC(local) ==
    LET std == local - StdOffset
        dst == local - (StdOffset + MsPerHour)
    IN  IF std < DstStart THEN std
        ELSE IF dst >= DstStart THEN dst
        ELSE std

\* date.setDate(day): the same local time of day on local day `day`
setDate(t, day) == UTC(day * MsPerDay + TimeWithinDay(t))

\* date.toISOString().split('T')[0]: the UTC calendar date
toISODate(t) == t \div MsPerDay

\* the DD.MM. label: the local calendar day
formatLabel(t) == getDate(t)
----------------------------------------------------------------------------
(* loadWeightData: building the series *)

Reverse(s) == [i \in 1..Len(s) |-> s[Len(s) + 1 - i]]

RemoveAt(s, i) == SubSeq(s, 1, i - 1) \o SubSeq(s, i + 1, Len(s))

\* getDailyLogs(startDate, endDate) over a storage: its entries for the dates
\* from..to, at most one per date, in date order.
RECURSIVE storedLogs(_, _, _)
storedLogs(store, from, to) ==
    IF from > to THEN <<>>
    ELSE (IF from \in DOMAIN store /\ store[from] # NoLog
          THEN <<[date |-> from, weight |-> store[from]]>>
          ELSE <<>>)
         \o storedLogs(store, from + 1, to)

getDailyLogs(from, to) == storedLogs(dailyLogs, from, to)

\* logs.filter(log => log.date).forEach(log => logsByDate.set(log.date, log)):
\* a later entry of a date replaces an earlier one.
logsByDate(logs) ==
    LET kept == SelectSeq(logs, LAMBDA log : log.date # Nil)
        dates == {kept[i].date : i \in DOMAIN kept}
        last(d) == CHOOSE i \in DOMAIN kept :
                       /\ kept[i].date = d
                       /\ \A j \in DOMAIN kept : kept[j].date = d => j <= i
    IN  [d \in dates |-> kept[last(d)]]

\* while (currentDate <= now) { push; currentDate.setDate(getDate() + 1) }
RECURSIVE allDaysInRange(_, _)
allDaysInRange(currentDate, now) ==
    IF currentDate <= now
    THEN <<currentDate>>
         \o allDaysInRange(setDate(currentDate, getDate(currentDate) + 1), now)
    ELSE <<>>

\* Schritt 1: one point per enumerated day, with the weight of its log if any
initialPoints(days, byDate) ==
    [i \in 1..Len(days) |->
        LET dateStr == toISODate(days[i])
            has == dateStr \in DOMAIN byDate /\ byDate[dateStr].weight # Nil
        IN  [date |-> dateStr,
             formattedDate |-> formatLabel(days[i]),
             weight |-> IF has THEN byDate[dateStr].weight ELSE Nil,
             hasActualWeight |-> has]]

\* carryForward with lastKnownWeight set only while it is null: the weight of
\* the latest anchored day is carried over every earlier gap
RECURSIVE carryLatest(_, _)
carryLatest(points, lastKnownWeight) ==
    IF points = <<>> THEN <<>>
    ELSE LET point == Head(points)
             known == IF lastKnownWeight # Nil THEN lastKnownWeight
                      ELSE point.weight
         IN  IF point.hasActualWeight
             THEN <<point>> \o carryLatest(Tail(points), known)
             ELSE IF lastKnownWeight # Nil
             THEN <<[point EXCEPT !.weight = lastKnownWeight]>>
                  \o carryLatest(Tail(points), lastKnownWeight)
             ELSE <<point>> \o carryLatest(Tail(points), lastKnownWeight)

\* Schritt 2: the forEach over the reversed points, lastKnownWeight being the
\* weight of the last point seen that has an actual weight
RECURSIVE carryForward(_, _)
carryForward(points, lastKnownWeight) ==
    IF points = <<>> THEN <<>>
    ELSE LET point == Head(points)
         IN  IF point.hasActualWeight
             THEN <<point>> \o carryForward(Tail(points), point.weight)
             ELSE IF lastKnownWeight # Nil
             THEN <<[point EXCEPT !.weight = lastKnownWeight]>>
                  \o carryForward(Tail(points), lastKnownWeight)
             ELSE <<point>> \o carryForward(Tail(points), lastKnownWeight)

\* const reversedPoints = [...initialPoints].reverse(), after the forEach
reversedPoints(points) == carryForward(Reverse(points), Nil)

\* hasWeight without the filter
keepAll(points) == points

\* .filter(point => point.weight !== null && point.weight !== undefined)
hasWeight(points) == SelectSeq(points, LAMBDA point : point.weight # Nil)

\* Schritt 3: reverse back, fall back to the captured defaultWeight, filter
weightPoints(reversed, fallback) ==
    LET back == Reverse(reversed)
        mapped == [i \in 1..Len(back) |->
                      [date |-> back[i].date,
                       formattedDate |-> back[i].formattedDate,
                       weight |-> IF back[i].weight # Nil
                                  THEN back[i].weight ELSE fallback]]
    IN  hasWeight(mapped)

\* the points of an invocation that has read the clock, before the carry
pointsOf(load) ==
    initialPoints(allDaysInRange(load.startDate, load.now),
                  logsByDate(getDailyLogs(toISODate(load.startDate),
                                          toISODate(load.now))))

\* lines 61-121: the series an invocation computes from the logs it receives
buildSeries(load) ==
    weightPoints(reversedPoints(pointsOf(load)), load.defaultWeight)

\* calculateStats with the signed change in place of Math.abs(change)
calculateStatsSigned ==
    IF Len(weightData) = 0
    THEN [start |-> 0, end |-> 0, change |-> 0, trend |-> "neutral"]
    ELSE LET startWeight == weightData[1].weight
             endWeight == weightData[Len(weightData)].weight
             change == endWeight - startWeight
         IN  [start |-> startWeight,
              end |-> endWeight,
              change |-> change,
              trend |-> IF change < 0 THEN "down"
                        ELSE IF change > 0 THEN "up" ELSE "neutral"]

\* calculateStats, evaluated on every render
calculateStats ==
    IF Len(weightData) = 0
    THEN [start |-> 0, end |-> 0, change |-> 0, trend |-> "neutral"]
    ELSE LET first == weightData[1].weight
             final == weightData[Len(weightData)].weight
             startWeight == IF first \in {Nil, 0} THEN 0 ELSE first
             endWeight == IF final \in {Nil, 0} THEN 0 ELSE final
             change == endWeight - startWeight
         IN  [start |-> startWeight,
              end |-> endWeight,
              change |-> IF change < 0 THEN -change ELSE change,
              trend |-> IF change < 0 THEN "down"
                        ELSE IF change > 0 THEN "up" ELSE "neutral"]

----------------------------------------------------------------------------
(* The weight-history screen *)

\* an invocation of loadWeightData: the timeRange and defaultWeight of the render
\* that created it, and where it stands
NewLoad(range, weight) ==
    [timeRange |-> range, defaultWeight |-> weight, pc |-> "fetchUserProfile",
     now |-> Nil, startDate |-> Nil]

\* userProfile?.weight || null
profileFallback(weight) == IF weight \in {Nil, 0} THEN Nil ELSE weight

\* onPress={() => setTimeRange(option.value)}; the effect of the next render
\* calls loadWeightData, which sets isLoading and awaits fetchUserProfile
SelectTimeRange(value) ==
    /\ value \in timeRangeOptions
    /\ value # timeRange
    /\ Len(loads) < MaxLoads
    /\ timeRange' = value
    /\ isLoading' = TRUE
    /\ loads' = Append(loads, NewLoad(value, defaultWeight))
    /\ UNCHANGED <<defaultWeight, weightData, clock, dailyLogs,
                   profileWeight, errors, shown>>
    /\ UNCHANGED serverVars

\* fetchUserProfile resolves: setDefaultWeight, the two new Date(), the range,
\* the call of getDailyLogs; a changed defaultWeight re-runs the effect
ProfileResolved(i) ==
    /\ i \in DOMAIN loads
    /\ loads[i].pc = "fetchUserProfile"
    /\ \E elapsed \in Elapsed :
        /\ LET weight == profileFallback(profileWeight)
               now == clock
               startDate == setDate(clock + elapsed,
                                    getDate(now) - loads[i].timeRange)
               awaiting == [loads EXCEPT ![i] =
                               [@ EXCEPT !.pc = "getDailyLogs",
                                         !.now = now,
                                         !.startDate = startDate]]
           IN  /\ defaultWeight' = weight
               /\ IF weight # defaultWeight
                  THEN /\ loads' = Append(awaiting, NewLoad(timeRange, weight))
                       /\ isLoading' = TRUE
                  ELSE /\ loads' = awaiting
                       /\ UNCHANGED isLoading
    /\ UNCHANGED <<timeRange, weightData, clock, dailyLogs, profileWeight,
                   errors, shown>>
    /\ UNCHANGED serverVars

\* getDailyLogs resolves: the series is built and displayed; finally
LogsResolved(i) ==
    /\ i \in DOMAIN loads
    /\ loads[i].pc = "getDailyLogs"
    /\ weightData' = buildSeries(loads[i])
    /\ isLoading' = FALSE
    /\ shown' = loads[i]
    /\ loads' = RemoveAt(loads, i)
    /\ UNCHANGED <<timeRange, defaultWeight, clock, dailyLogs,
                   profileWeight, errors>>
    /\ UNCHANGED serverVars

\* ProfileRejected with setIsLoading(false) at the end of the try block instead
\* of in finally
ProfileRejectedNoFinally(i) ==
    /\ i \in DOMAIN loads
    /\ loads[i].pc = "fetchUserProfile"
    /\ errors < MaxErrors
    /\ errors' = errors + 1
    /\ loads' = RemoveAt(loads, i)
    /\ UNCHANGED <<timeRange, defaultWeight, weightData, isLoading, clock,
                   dailyLogs, profileWeight, shown>>
    /\ UNCHANGED <<serverPc, connResult, initResult, console, exitCode, calls>>

\* fetchUserProfile rejects: catch (console.error), finally
ProfileRejected(i) ==
    /\ i \in DOMAIN loads
    /\ loads[i].pc = "fetchUserProfile"
    /\ errors < MaxErrors
    /\ errors' = errors + 1
    /\ isLoading' = FALSE
    /\ loads' = RemoveAt(loads, i)
    /\ UNCHANGED <<timeRange, defaultWeight, weightData, clock,
                   dailyLogs, profileWeight, shown>>
    /\ UNCHANGED serverVars

\* getDailyLogs rejects: catch (console.error), finally
LogsRejected(i) ==
    /\ i \in DOMAIN loads
    /\ loads[i].pc = "getDailyLogs"
    /\ errors < MaxErrors
    /\ errors' = errors + 1
    /\ isLoading' = FALSE
    /\ loads' = RemoveAt(loads, i)
    /\ UNCHANGED <<timeRange, defaultWeight, weightData, clock,
                   dailyLogs, profileWeight, shown>>
    /\ UNCHANGED serverVars

----------------------------------------------------------------------------
(* Initial states *)

\* the instants the screen is mounted at: at noon, well after the change to
\* summer time; and at 01:30 local time, the day after the change
ClockStarts == {8 * MsPerDay + 12 * MsPerHour,
                4 * MsPerDay + 23 * MsPerHour + 30 * 60 * 1000}

\* the dates a range ending at instant t can cover
LogDays(t) == (toISODate(t) - MaxRange)..toISODate(t)

\* the storages over these dates
Storages(t) == [LogDays(t) -> LogValues]

\* the storages with no log, or with a single log, which holds a nonzero weight
SingleLogStorages(t) ==
    {store \in Storages(t) :
        \E logged \in LogDays(t) :
            /\ \A date \in LogDays(t) \ {logged} : store[date] = NoLog
            /\ store[logged] \in {NoLog} \cup (LogWeights \ {0})}

ServerIdle ==
    /\ serverPc = "notStarted"
    /\ connResult = "true"
    /\ initResult = "true"
    /\ console = <<>>
    /\ exitCode = Nil
    /\ calls = [testConnection |-> 0, initializeDatabase |-> 0]

\* the first render and its effect: loadWeightData awaits fetchUserProfile
Init ==
    /\ timeRange = MinRange
    /\ defaultWeight = Nil
    /\ weightData = <<>>
    /\ isLoading = TRUE
    /\ loads = <<NewLoad(MinRange, Nil)>>
    /\ clock \in ClockStarts
    /\ dailyLogs \in SingleLogStorages(clock)
    /\ profileWeight \in ProfileWeights
    /\ errors = 0
    /\ shown = NoLoad
    /\ ServerIdle

\* a state of the screen in which one invocation awaits getDailyLogs and the
\* earlier ones have failed, so that nothing is displayed yet: any range, any
\* storage, any profile, the defaultWeight captured before or after the first
\* setDefaultWeight, the two new Date() in the same millisecond or not
InitBuild ==
    /\ timeRange \in timeRangeOptions
    /\ profileWeight \in ProfileWeights
    /\ defaultWeight = profileFallback(profileWeight)
    /\ weightData = <<>>
    /\ isLoading = FALSE
    /\ clock \in ClockStarts
    /\ \E elapsed \in Elapsed, captured \in {Nil, defaultWeight} :
        loads = <<[timeRange |-> timeRange,
                   defaultWeight |-> captured,
                   pc |-> "getDailyLogs",
                   now |-> clock,
                   startDate |-> setDate(clock + elapsed,
                                         getDate(clock) - timeRange)]>>
    /\ dailyLogs \in Storages(clock)
    /\ errors = 2
    /\ shown = NoLoad
    /\ ServerIdle

Next ==
    \/ \E value \in timeRangeOptions : SelectTimeRange(value)
    \/ \E i \in 1..(MaxLoads + 1) : ProfileResolved(i)
    \/ \E i \in 1..(MaxLoads + 1) : LogsResolved(i)
    \/ \E i \in 1..(MaxLoads + 1) : ProfileRejected(i)
    \/ \E i \in 1..(MaxLoads + 1) : LogsRejected(i)

Spec == Init /\ [][Next]_vars

NextBuild == \E i \in 1..(MaxLoads + 1) : LogsResolved(i)

\* one invocation of loadWeightData completing, over all its inputs
SpecBuild == InitBuild /\ [][NextBuild]_vars

----------------------------------------------------------------------------
(* initServer *)

\* what an awaited call may produce: a value, or an exception
Outcomes == {"true", "false", "null", "undefined", "0", "throws"}

\* !value is false
Truthy(value) == value = "true"

ScreenIdle ==
    /\ timeRange = MinRange
    /\ defaultWeight = Nil
    /\ weightData = <<>>
    /\ isLoading = TRUE
    /\ loads = <<>>
    /\ clock = 0
    /\ dailyLogs = [d \in {} |-> NoLog]
    /\ profileWeight = Nil
    /\ errors = 0
    /\ shown = NoLoad

ServerInit ==
    /\ ScreenIdle
    /\ serverPc = "notStarted"
    /\ connResult \in Outcomes
    /\ initResult \in Outcomes
    /\ console = <<>>
    /\ exitCode = Nil
    /\ calls = [testConnection |-> 0, initializeDatabase |-> 0]

\* initServer(): console.log, then await testConnection()
initServer ==
    /\ serverPc = "notStarted"
    /\ console' = Append(console, "Initializing server...")
    /\ calls' = [calls EXCEPT !.testConnection = @ + 1]
    /\ serverPc' = "testConnection"
    /\ UNCHANGED <<connResult, initResult, exitCode>>
    /\ UNCHANGED screenVars

\* ConnectionTested without process.exit(1): the error is logged and the
\* start-up goes on
ConnectionTestedNoExit ==
    /\ serverPc = "testConnection"
    /\ connResult # "throws"
    /\ console' = IF ~Truthy(connResult)
                  THEN Append(console, "Failed to connect to database. Please check your configuration.")
                  ELSE console
    /\ calls' = [calls EXCEPT !.initializeDatabase = @ + 1]
    /\ serverPc' = "initializeDatabase"
    /\ UNCHANGED <<connResult, initResult, exitCode>>
    /\ UNCHANGED <<timeRange, defaultWeight, weightData, isLoading, loads,
                   clock, dailyLogs, profileWeight, errors, shown>>

\* testConnection resolves: exit on a falsy result, else await initializeDatabase()
ConnectionTested ==
    /\ serverPc = "testConnection"
    /\ connResult # "throws"
    /\ IF ~Truthy(connResult)
       THEN /\ console' = Append(console, "Failed to connect to database. Please check your configuration.")
            /\ exitCode' = 1
            /\ serverPc' = "exited"
            /\ UNCHANGED calls
       ELSE /\ calls' = [calls EXCEPT !.initializeDatabase = @ + 1]
            /\ serverPc' = "initializeDatabase"
            /\ UNCHANGED <<console, exitCode>>
    /\ UNCHANGED <<connResult, initResult>>
    /\ UNCHANGED screenVars

\* initializeDatabase resolves: exit on a falsy result, else the success message
DatabaseInitialized ==
    /\ serverPc = "initializeDatabase"
    /\ initResult # "throws"
    /\ IF ~Truthy(initResult)
       THEN /\ console' = Append(console, "Failed to initialize database schema. Please check the error logs.")
            /\ exitCode' = 1
            /\ serverPc' = "exited"
       ELSE /\ console' = Append(console, "Server initialization completed successfully.")
            /\ serverPc' = "done"
            /\ UNCHANGED exitCode
    /\ UNCHANGED <<connResult, initResult, calls>>
    /\ UNCHANGED screenVars

\* an awaited call throws: initServer's promise rejects, nothing more runs
CallRejected ==
    /\ \/ serverPc = "testConnection" /\ connResult = "throws"
       \/ serverPc = "initializeDatabase" /\ initResult = "throws"
    /\ serverPc' = "rejected"
    /\ UNCHANGED <<connResult, initResult, console, exitCode, calls>>
    /\ UNCHANGED screenVars

NextServer ==
    \/ initServer
    \/ ConnectionTested
    \/ DatabaseInitialized
    \/ CallRejected

SpecServer == ServerInit /\ [][NextServer]_vars

----------------------------------------------------------------------------
(* Properties *)

\* the instants enumerated by the invocation that wrote weightData, and their dates
ShownDays == allDaysInRange(shown.startDate, shown.now)
ShownDate(i) == toISODate(ShownDays[i])

\* the weight logged for a date, Nil when there is no log or the log has none
LoggedWeight(date) ==
    IF date \in DOMAIN dailyLogs /\ dailyLogs[date] \notin {NoLog, Nil}
    THEN dailyLogs[date]
    ELSE Nil

\* the enumerated days at or after day i that are anchored
AnchorsFrom(i) ==
    {j \in i..Len(ShownDays) : LoggedWeight(ShownDate(j)) # Nil}

Least(S) == CHOOSE j \in S : \A k \in S : j <= k

\* day i is emitted, and with this weight
EmittedWith(i, weight) ==
    /\ i <= Len(weightData)
    /\ weightData[i].date = ShownDate(i)
    /\ weightData[i].weight = weight

C3_WeightNeverNull ==
    \A i \in DOMAIN weightData : weightData[i].weight # Nil

\* a load that emitted some days and dropped the unresolved ones
C3_Witness ==
    /\ shown # NoLoad
    /\ weightData # <<>>
    /\ Len(weightData) < Len(ShownDays)

\* C6: the statistics of the displayed series: all zero and neutral when it is
\* empty; else start and end are the first and last weight, change is their
\* absolute difference and trend its sign.
C6_StatsOfSeries ==
    IF weightData = <<>>
    THEN calculateStats = [start |-> 0, end |-> 0, change |-> 0, trend |-> "neutral"]
    ELSE LET first == weightData[1].weight
             final == weightData[Len(weightData)].weight
         IN  /\ calculateStats.start = first
             /\ calculateStats.end = final
             /\ calculateStats.change \in {final - first, first - final}
             /\ calculateStats.change >= 0
             /\ final < first => calculateStats.trend = "down"
             /\ final > first => calculateStats.trend = "up"
             /\ final = first => calculateStats.trend = "neutral"

\* a series that ends lower than it starts
C6_Witness ==
    /\ Len(weightData) >= 2
    /\ weightData[Len(weightData)].weight < weightData[1].weight
    /\ calculateStats.trend = "down"

\* C8: a failed fetch leaves the displayed series as it was, ends its load and
\* sets isLoading to false.
C8_FailureSwallowed ==
    [][errors' = errors + 1 =>
          /\ weightData' = weightData
          /\ isLoading' = FALSE
          /\ Len(loads') = Len(loads) - 1]_vars

\* a fetch failed and a series written by another load is still displayed
C8_Witness ==
    /\ errors = 1
    /\ loads = <<>>
    /\ weightData # <<>>
    /\ ~isLoading

\* the success message of initServer
Success == "Server initialization completed successfully."
Logged(message) == \E i \in DOMAIN console : console[i] = message
ConnectionReturned == serverPc \notin {"notStarted", "testConnection", "rejected"}
                      \/ calls.initializeDatabase > 0
DatabaseReturned == serverPc \in {"done", "exited"} /\ calls.initializeDatabase > 0

\* C9: testConnection and initializeDatabase are invoked at most once each,
\* initializeDatabase only after testConnection returned a truthy result; a falsy
\* result of either exits with code 1 before any later step; the success message
\* is logged only after both returned truthy results.
C9_LinearStartup ==
    /\ calls.testConnection <= 1
    /\ calls.initializeDatabase <= 1
    /\ calls.initializeDatabase = 1 => Truthy(connResult)
    /\ (ConnectionReturned /\ ~Truthy(connResult)) =>
          /\ exitCode = 1
          /\ calls.initializeDatabase = 0
          /\ ~Logged(Success)
    /\ (DatabaseReturned /\ ~Truthy(initResult)) =>
          /\ exitCode = 1
          /\ ~Logged(Success)
    /\ Logged(Success) =>
          /\ Truthy(connResult)
          /\ Truthy(initResult)
          /\ calls.initializeDatabase = 1
          /\ exitCode = Nil
    /\ exitCode \in {Nil, 1}

\* the start-up exited because initializeDatabase returned a falsy result
C9_Witness ==
    /\ serverPc = "exited"
    /\ calls.initializeDatabase = 1
    /\ exitCode = 1

\* the fallback of a load: the weight of the profile it fetched
FetchedFallback == profileFallback(profileWeight)

\* C2: in a completed load, a day with no anchored day from it to the end of the
\* range is emitted with the weight of the profile fetched by that load when
\* there is one and dropped when there is none; a day that is anchored or has a
\* later anchor is emitted with the anchored weight, never with the fallback.
C2_FallbackIsProfileWeight ==
    shown # NoLoad =>
        \A i \in 1..Len(ShownDays) :
            IF AnchorsFrom(i) # {}
            THEN EmittedWith(i, LoggedWeight(ShownDate(Least(AnchorsFrom(i)))))
            ELSE IF FetchedFallback # Nil
            THEN EmittedWith(i, FetchedFallback)
            ELSE i > Len(weightData)

\* the dates asked of getDailyLogs: formattedStartDate .. formattedEndDate
ShownRange == toISODate(shown.startDate)..toISODate(shown.now)

\* a date of the range resolves: an anchor at or after it, or a fallback
Resolves(date) ==
    \/ \E later \in ShownRange : later >= date /\ LoggedWeight(later) # Nil
    \/ shown.defaultWeight # Nil

\* C4: the series is strictly ascending by date, holds only dates of
\* [startDate, endDate], so at most one point per day and at most as many points
\* as the range has days, and exactly as many iff every day of the range
\* resolves to a weight.
C4_OnePointPerDay ==
    shown # NoLoad =>
        /\ \A i, j \in DOMAIN weightData :
              i < j => weightData[i].date < weightData[j].date
        /\ \A i \in DOMAIN weightData : weightData[i].date \in ShownRange
        /\ Len(weightData) <= Cardinality(ShownRange)
        /\ Len(weightData) = Cardinality(ShownRange)
              <=> \A date \in ShownRange : Resolves(date)

\* a load completes (its series is displayed)
Completes == errors' = errors /\ Len(loads') < Len(loads)

\* the inputs of the load that wrote weightData: date range (the logs and the
\* profile do not change)
InputsOf(load) == <<toISODate(load.startDate), toISODate(load.now)>>

\* C5: a load given the date range, logs and profile weight of the load that
\* built the displayed series builds the same series.
C5_SameInputsSameSeries ==
    [][(Completes /\ shown # NoLoad /\ InputsOf(shown') = InputsOf(shown))
          => weightData' = weightData]_vars

\* the series a load may compute for a range: whether or not the clock ticks
\* between its two new Date(), and whichever defaultWeight it captured
SeriesFor(range) ==
    {buildSeries([timeRange |-> range,
                  defaultWeight |-> captured,
                  pc |-> "getDailyLogs",
                  now |-> now,
                  startDate |-> setDate(now + elapsed, getDate(now) - range)]) :
        captured \in {Nil, FetchedFallback},
        now \in {clock},
        elapsed \in Elapsed}

\* C7: once no load is outstanding (and none has failed), the displayed series
\* is one computed for the selected timeRange.
C7_StaleResultDiscarded ==
    (loads = <<>> /\ errors = 0) => weightData \in SeriesFor(timeRange)

\* C10: once the loads have settled (every fetch having completed), isLoading is
\* false and the displayed series is the one built with the fetched profile
\* weight as fallback.
C10_SettlesOnProfileFallback ==
    (loads = <<>> /\ errors = 0) =>
        /\ ~isLoading
        /\ weightData
              = weightPoints(reversedPoints(pointsOf(shown)), FetchedFallback)

====
